---------------------------- MODULE Spec2Model ----------------------------
(***************************************************************************)
(* A model of src/app.py, the Chicago Crime Observatory dashboard: the     *)
(* categorizer, the cached incident loader, the Streamlit page run         *)
(* (sidebar controls, filter logic, the three aggregations and their       *)
(* no-data branches) and the client-side linked bar chart / map.           *)
(*                                                                         *)
(* Representation.  A Python str that the code inspects character by       *)
(* character is a sequence of one-character strings.  Dates are day        *)
(* ordinals, timestamps are hours (24 * day + hour), wall-clock time is    *)
(* in seconds.  pandas' missing values are the sentinels NaT, NA and NaN.  *)
(***************************************************************************)
EXTENDS Integers, Sequences, FiniteSets, TLC

VARIABLES
  clock,          \* wall-clock time of the server process, seconds
  cache,          \* st.cache_data entries of load_data, keyed by limit
  session_state,  \* st.session_state: a function on the keys that are set
  df,             \* the table load_data returned in the latest page run
  stage,          \* how far the latest page run got
  notices,        \* the elements the latest page run put on the page
  filters,        \* the widget values the latest page run filtered with
  filtered_df,    \* filtered_df of the latest page run
  chart_data,     \* chart_data of the latest page run
  bar_chart,      \* the rows the bar chart of the latest page run shows
  selection,      \* the crime types selected by clicks on the bar chart
  last_get,       \* the most recent HTTP GET of the incident API, if any
  run,            \* what the latest page run did: Refresh, GETs, time
  cat_input,      \* argument of a categorize_for_resident call
  cat_result      \* its return value, "" before the call returns

vars == << clock, cache, session_state, df, stage, notices, filters,
           filtered_df, chart_data, bar_chart, selection, last_get, run,
           cat_input, cat_result >>

---------------------------------------------------------------------------
(* Bounds of the model.                                                    *)

\* Page runs happen at times 0, TTL/2, ..., MaxTicks * TTL/2.
MaxTicks == 3
\* A categorizer input is the concatenation of at most MaxFrags fragments.
MaxFrags == 2
\* The generated aggregates of SpecChart have at most MaxTypes crime types.
MaxTypes == 22

---------------------------------------------------------------------------
(* categorize_for_resident                                                 *)

LowerCase ==
  <<"a","b","c","d","e","f","g","h","i","j","k","l","m","n","o","p","q","r","s","t","u","v","w","x","y","z">>
UpperCase ==
  <<"A","B","C","D","E","F","G","H","I","J","K","L","M","N","O","P","Q","R","S","T","U","V","W","X","Y","Z">>

\* str.upper(), character by character
upper(s) ==
  [i \in 1..Len(s) |->
     IF \E n \in 1..Len(LowerCase) : LowerCase[n] = s[i]
     THEN UpperCase[CHOOSE n \in 1..Len(LowerCase) : LowerCase[n] = s[i]]
     ELSE s[i]]

property_keywords ==
  << <<"T","H","E","F","T">>,
     <<"B","U","R","G","L","A","R","Y">>,
     <<"R","O","B","B","E","R","Y">>,
     <<"M","O","T","O","R"," ","V","E","H","I","C","L","E"," ","T","H","E","F","T">>,
     <<"C","R","I","M","I","N","A","L"," ","D","A","M","A","G","E">>,
     <<"D","E","C","E","P","T","I","V","E"," ","P","R","A","C","T","I","C","E">>,
     <<"A","R","S","O","N">> >>

violent_keywords ==
  << <<"B","A","T","T","E","R","Y">>,
     <<"A","S","S","A","U","L","T">>,
     <<"H","O","M","I","C","I","D","E">>,
     <<"K","I","D","N","A","P","P","I","N","G">>,
     <<"C","R","I","M"," ","S","E","X","U","A","L"," ","A","S","S","A","U","L","T">>,
     <<"S","E","X"," ","O","F","F","E","N","S","E">> >>

public_safety_keywords ==
  << <<"P","U","B","L","I","C"," ","P","E","A","C","E"," ","V","I","O","L","A","T","I","O","N">>,
     <<"I","N","T","E","R","F","E","R","E","N","C","E"," ","W","I","T","H"," ","P","U","B","L","I","C"," ","O","F","F","I","C","E","R">>,
     <<"W","E","A","P","O","N","S"," ","V","I","O","L","A","T","I","O","N">>,
     <<"H","U","M","A","N"," ","T","R","A","F","F","I","C","K","I","N","G">>,
     <<"P","R","O","S","T","I","T","U","T","I","O","N">>,
     <<"G","A","M","B","L","I","N","G">>,
     <<"N","A","R","C","O","T","I","C","S">>,
     <<"O","T","H","E","R"," ","N","A","R","C","O","T","I","C"," ","V","I","O","L","A","T","I","O","N">>,
     <<"L","I","Q","U","O","R"," ","L","A","W"," ","V","I","O","L","A","T","I","O","N">>,
     <<"O","B","S","C","E","N","I","T","Y">> >>

\* Python's  k in c  on two strings: k is a contiguous slice of c
StrIn(k, c) ==
  \E i \in 1..(Len(c) - Len(k) + 1) : SubSeq(c, i, i + Len(k) - 1) = k

\* any(k in c for k in keywords), scanning the list from index i
RECURSIVE AnyKeywordIn(_, _, _)
AnyKeywordIn(keywords, c, i) ==
  IF i > Len(keywords) THEN FALSE
  ELSE IF StrIn(keywords[i], c) THEN TRUE
  ELSE AnyKeywordIn(keywords, c, i + 1)

\* A Python value handed to the categorizer: its type, and its characters
\* when it is a str.
PyStr(chars) == [type |-> "str", chars |-> chars]
PyNaN == [type |-> "float", chars |-> << >>]
PyNone == [type |-> "NoneType", chars |-> << >>]
PyInt == [type |-> "int", chars |-> << >>]

\* The violent list checked before the property list.
categorize_violent_first(crime_type) ==
  IF crime_type.type # "str" THEN "Other / Uncategorized"
  ELSE LET c == upper(crime_type.chars) IN
       IF AnyKeywordIn(violent_keywords, c, 1) THEN "Violent Crime"
       ELSE IF AnyKeywordIn(property_keywords, c, 1) THEN "Property Crime"
       ELSE IF AnyKeywordIn(public_safety_keywords, c, 1)
            THEN "Public Safety / Nuisance"
       ELSE "Other / Uncategorized"

categorize_for_resident(crime_type) ==
  IF crime_type.type # "str" THEN "Other / Uncategorized"
  ELSE LET c == upper(crime_type.chars) IN
       IF AnyKeywordIn(property_keywords, c, 1) THEN "Property Crime"
       ELSE IF AnyKeywordIn(violent_keywords, c, 1) THEN "Violent Crime"
       ELSE IF AnyKeywordIn(public_safety_keywords, c, 1)
            THEN "Public Safety / Nuisance"
       ELSE "Other / Uncategorized"

---------------------------------------------------------------------------
(* The incident API and its JSON payloads                                  *)

\* pandas' missing values: NaN in an object column, NaT in a datetime
\* column, <NA> in an Int64 column.
NaN == "NaN"
NaT == -1
NA == 0

\* load_data's default limit
DefaultLimit == 300000
\* ttl of st.cache_data, seconds
TTL == 3600
\* rank <= 20 in the bar chart
TopN == 20
\* rolling(window=7)
Window == 7
\* The boundary dataset has one feature per area 1..NumAreas.
NumAreas == 3

weekday_order ==
  << "Monday", "Tuesday", "Wednesday", "Thursday", "Friday", "Saturday",
     "Sunday" >>

\* Values of primary_type in the Chicago data
TypeNames ==
  << "THEFT",
     "BATTERY",
     "CRIMINAL DAMAGE",
     "ASSAULT",
     "DECEPTIVE PRACTICE",
     "OTHER OFFENSE",
     "MOTOR VEHICLE THEFT",
     "NARCOTICS",
     "BURGLARY",
     "ROBBERY",
     "WEAPONS VIOLATION",
     "CRIMINAL TRESPASS",
     "OFFENSE INVOLVING CHILDREN",
     "SEX OFFENSE",
     "CRIMINAL SEXUAL ASSAULT",
     "PUBLIC PEACE VIOLATION",
     "INTERFERENCE WITH PUBLIC OFFICER",
     "HOMICIDE",
     "STALKING",
     "ARSON",
     "PROSTITUTION",
     "INTIMIDATION",
     "LIQUOR LAW VIOLATION",
     "KIDNAPPING",
     "OBSCENITY",
     "GAMBLING" >>

\* The characters of a primary_type value
Text(name) ==
  CASE name = "THEFT" -> <<"T","H","E","F","T">>
    [] name = "BATTERY" -> <<"B","A","T","T","E","R","Y">>
    [] name = "CRIMINAL DAMAGE" -> <<"C","R","I","M","I","N","A","L"," ","D","A","M","A","G","E">>
    [] name = "ASSAULT" -> <<"A","S","S","A","U","L","T">>
    [] name = "DECEPTIVE PRACTICE" -> <<"D","E","C","E","P","T","I","V","E"," ","P","R","A","C","T","I","C","E">>
    [] name = "OTHER OFFENSE" -> <<"O","T","H","E","R"," ","O","F","F","E","N","S","E">>
    [] name = "MOTOR VEHICLE THEFT" -> <<"M","O","T","O","R"," ","V","E","H","I","C","L","E"," ","T","H","E","F","T">>
    [] name = "NARCOTICS" -> <<"N","A","R","C","O","T","I","C","S">>
    [] name = "BURGLARY" -> <<"B","U","R","G","L","A","R","Y">>
    [] name = "ROBBERY" -> <<"R","O","B","B","E","R","Y">>
    [] name = "WEAPONS VIOLATION" -> <<"W","E","A","P","O","N","S"," ","V","I","O","L","A","T","I","O","N">>
    [] name = "CRIMINAL TRESPASS" -> <<"C","R","I","M","I","N","A","L"," ","T","R","E","S","P","A","S","S">>
    [] name = "OFFENSE INVOLVING CHILDREN" -> <<"O","F","F","E","N","S","E"," ","I","N","V","O","L","V","I","N","G"," ","C","H","I","L","D","R","E","N">>
    [] name = "SEX OFFENSE" -> <<"S","E","X"," ","O","F","F","E","N","S","E">>
    [] name = "CRIMINAL SEXUAL ASSAULT" -> <<"C","R","I","M","I","N","A","L"," ","S","E","X","U","A","L"," ","A","S","S","A","U","L","T">>
    [] name = "PUBLIC PEACE VIOLATION" -> <<"P","U","B","L","I","C"," ","P","E","A","C","E"," ","V","I","O","L","A","T","I","O","N">>
    [] name = "INTERFERENCE WITH PUBLIC OFFICER" -> <<"I","N","T","E","R","F","E","R","E","N","C","E"," ","W","I","T","H"," ","P","U","B","L","I","C"," ","O","F","F","I","C","E","R">>
    [] name = "HOMICIDE" -> <<"H","O","M","I","C","I","D","E">>
    [] name = "STALKING" -> <<"S","T","A","L","K","I","N","G">>
    [] name = "ARSON" -> <<"A","R","S","O","N">>
    [] name = "PROSTITUTION" -> <<"P","R","O","S","T","I","T","U","T","I","O","N">>
    [] name = "INTIMIDATION" -> <<"I","N","T","I","M","I","D","A","T","I","O","N">>
    [] name = "LIQUOR LAW VIOLATION" -> <<"L","I","Q","U","O","R"," ","L","A","W"," ","V","I","O","L","A","T","I","O","N">>
    [] name = "KIDNAPPING" -> <<"K","I","D","N","A","P","P","I","N","G">>
    [] name = "OBSCENITY" -> <<"O","B","S","C","E","N","I","T","Y">>
    [] name = "GAMBLING" -> <<"G","A","M","B","L","I","N","G">>
    [] OTHER -> << >>

\* One JSON record of the API.  date is the text of the timestamp: well
\* formed (day, hour) or not.  A key the record lacks is NaN after
\* json_normalize.
Raw(id, valid, day, hour, primary_type, domestic, community_area) ==
  [ id |-> id, date |-> [valid |-> valid, day |-> day, hour |-> hour],
    primary_type |-> primary_type, domestic |-> domestic,
    community_area |-> community_area ]

\* Incidents of days 1..2
PayloadA ==
  { Raw(1, TRUE, 1, 9, "THEFT", "false", "1"),
    Raw(2, TRUE, 1, 22, "BATTERY", "true", "2.0"),
    Raw(3, TRUE, 2, 9, "THEFT", NaN, "2"),
    Raw(4, TRUE, 2, 14, "BATTERY", "false", NaN),
    Raw(5, FALSE, 0, 0, "THEFT", "false", "1"),
    Raw(6, TRUE, 2, 23, NaN, "true", "1") }

\* Incidents of days 2..3
PayloadB ==
  { Raw(7, TRUE, 2, 3, "THEFT", "true", "3"),
    Raw(8, TRUE, 3, 9, "BATTERY", "false", "x"),
    Raw(9, TRUE, 3, 9, "THEFT", "false", "3") }

\* What one requests.get can end in: an exception (connection error,
\* timeout, HTTP error status) or a JSON array.
Outcomes ==
  { [ok |-> FALSE, raw |-> {}] } \cup
  { [ok |-> TRUE, raw |-> p] : p \in { {}, PayloadA, PayloadB } }

\* No request is sent: load_data is answered from the cache.
NoRequest == [ok |-> TRUE, raw |-> {"no request"}]

---------------------------------------------------------------------------
(* load_data                                                               *)

to_datetime(d) == IF d.valid THEN 24 * d.day + d.hour ELSE NaT

day_name(ts) == weekday_order[((ts \div 24) % 7) + 1]

Digit == << "0", "1", "2", "3", "4", "5", "6", "7", "8", "9" >>

\* astype(str) of an Int64 value
RECURSIVE astype_str(_)
astype_str(n) ==
  IF n < 10 THEN Digit[n + 1]
  ELSE astype_str(n \div 10) \o Digit[(n % 10) + 1]

\* pd.to_numeric(errors="coerce").astype("Int64") on the text of an area
\* code: "25" and "25.0" are both 25, anything else that is no number is
\* <NA>.
to_Int64(text) ==
  IF \E n \in 1..NumAreas : text \in { astype_str(n), astype_str(n) \o ".0" }
  THEN CHOOSE n \in 1..NumAreas : text \in { astype_str(n), astype_str(n) \o ".0" }
  ELSE NA

PyValue(v) == IF v = NaN THEN PyNaN ELSE PyStr(Text(v))

\* Lines 77-103: the table built from a decoded payload.
Normalize(raw) ==
  { [ id |-> r.id,
      date |-> to_datetime(r.date),
      date_only |-> to_datetime(r.date) \div 24,
      hour |-> to_datetime(r.date) % 24,
      weekday |-> day_name(to_datetime(r.date)),
      primary_description |-> r.primary_type,
      domestic |-> r.domestic,
      community_area |-> to_Int64(r.community_area),
      resident_category |-> categorize_for_resident(PyValue(r.primary_type)) ]
    : r \in { q \in raw : to_datetime(q.date) # NaT } }

\* The except branch that forgets st.error.
LoadFailureSilent == [df |-> {}, error |-> FALSE]

\* Lines 105-107: st.error, and an empty DataFrame is returned.
LoadFailure == [df |-> {}, error |-> TRUE]

\* Lines 72-107: the body of load_data on the outcome of its one GET.
\* error: the st.error element the call emits (st.cache_data stores it
\* with the value and replays it on a hit).
LoadBody(outcome) ==
  IF ~outcome.ok THEN LoadFailure
  ELSE IF outcome.raw = {} THEN [df |-> {}, error |-> FALSE]
  ELSE [df |-> Normalize(outcome.raw), error |-> FALSE]

\* LoadBody of each outcome
Loaded == [o \in Outcomes |-> LoadBody(o)]

\* A lookup that never expires an entry.
CacheLiveNoTTL(c, limit, now) == { e \in c : e.key = limit }

\* st.cache_data(ttl=3600): the entries of this key that have not expired.
CacheLive(c, limit, now) ==
  { e \in c : e.key = limit /\ now - e.at < TTL }

\* A store that keeps only successful loads.
CacheStoreOkOnly(c, limit, now, res) ==
  IF res.error THEN { e \in c : e.key # limit }
  ELSE { e \in c : e.key # limit } \cup
       { [key |-> limit, at |-> now, df |-> res.df, error |-> res.error] }

\* st.cache_data: the value returned (and the elements emitted) are stored
\* under the call's argument.
CacheStore(c, limit, now, res) ==
  { e \in c : e.key # limit } \cup
  { [key |-> limit, at |-> now, df |-> res.df, error |-> res.error] }

\* Lines 53-107: the decorated load_data(limit).  gets counts the HTTP GETs
\* the call issued.
load_data(limit, c, now, outcome) ==
  IF CacheLive(c, limit, now) # {}
  THEN LET e == CHOOSE e \in CacheLive(c, limit, now) : TRUE IN
       [df |-> e.df, error |-> e.error, gets |-> 0, cache |-> c]
  ELSE LET res == Loaded[outcome] IN
       [df |-> res.df, error |-> res.error, gets |-> 1,
        cache |-> CacheStore(c, limit, now, res)]

---------------------------------------------------------------------------
(* Sidebar controls and filter logic                                       *)

Min(S) == CHOOSE x \in S : \A y \in S : x <= y
Max(S) == CHOOSE x \in S : \A y \in S : y <= x

\* Lines 135-136
min_date(d) == Min({ r.date_only : r \in d })
max_date(d) == Max({ r.date_only : r \in d })

\* Lines 138-141: the keys set once, when absent
InitSession(ss, d) ==
  LET s1 == IF "start_date" \in DOMAIN ss THEN ss
            ELSE ("start_date" :> min_date(d)) @@ ss
  IN IF "end_date" \in DOMAIN s1 THEN s1
     ELSE ("end_date" :> max_date(d)) @@ s1

\* Lines 143-148: st.date_input refuses a default value outside
\* [min_value, max_value] with an exception.
DateInputRejects(value, lo, hi) == value[1] < lo \/ value[2] > hi

\* Lines 143-148: what the range picker can return: its default, a range
\* the user picked inside [min_value, max_value], or only a start date
\* while the user is still picking.
DateInputValues(value, lo, hi) ==
  { value } \cup
  { p \in (lo..hi) \X (lo..hi) : p[1] <= p[2] } \cup
  { << s >> : s \in lo..hi }

\* Lines 149-150
StoreRange(ss, date_range) ==
  IF Len(date_range) = 2
  THEN [ss EXCEPT !["start_date"] = date_range[1], !["end_date"] = date_range[2]]
  ELSE ss

\* Line 156
all_cats(d) == { r.primary_description : r \in d } \ { NaN }

domestic_options == { "All incidents", "Domestic only", "Non-domestic only" }

\* The filter with an exclusive end date.
FilterLogicExclusiveEnd(d, start_date, end_date, selected_cats, domestic_filter) ==
  LET m1 == { r \in d : r.date_only >= start_date /\ r.date_only < end_date }
      m2 == IF domestic_filter = "Domestic only"
            THEN { r \in m1 : r.domestic = "true" }
            ELSE IF domestic_filter = "Non-domestic only"
            THEN { r \in m1 : r.domestic = "false" }
            ELSE m1
  IN IF selected_cats # {}
     THEN { r \in m2 : r.primary_description \in selected_cats }
     ELSE m2

\* Lines 169-179: the mask, narrowed step by step, and filtered_df
FilterLogic(d, start_date, end_date, selected_cats, domestic_filter) ==
  LET m1 == { r \in d : r.date_only >= start_date /\ r.date_only <= end_date }
      m2 == IF domestic_filter = "Domestic only"
            THEN { r \in m1 : r.domestic = "true" }
            ELSE IF domestic_filter = "Non-domestic only"
            THEN { r \in m1 : r.domestic = "false" }
            ELSE m1
  IN IF selected_cats # {}
     THEN { r \in m2 : r.primary_description \in selected_cats }
     ELSE m2

---------------------------------------------------------------------------
(* Aggregations                                                            *)

RECURSIVE SumCount(_)
SumCount(rows) ==
  IF rows = {} THEN 0
  ELSE LET r == CHOOSE r \in rows : TRUE IN r.count + SumCount(rows \ {r})

\* Lines 206-207: incidents per date, and the trailing window of at most
\* Window rows (min_periods=1) as its sum and its length; the rolling mean
\* is rolling_sum / rolling_n.
Daily(fdf) ==
  LET dates == { r.date_only : r \in fdf }
      incidents(d) == Cardinality({ r \in fdf : r.date_only = d })
      pos(d) == Cardinality({ x \in dates : x <= d })
      win(d) == { x \in dates : pos(x) <= pos(d) /\ pos(x) > pos(d) - Window }
  IN { [ date_only |-> d, incidents |-> incidents(d),
         rolling_sum |-> SumCount({ [k |-> x, count |-> incidents(x)] : x \in win(d) }),
         rolling_n |-> Cardinality(win(d)) ] : d \in dates }

\* A grouping that keeps the rows whose area is <NA>.
ChartDataKeepNA(fdf) ==
  LET keyed == { r \in fdf : r.primary_description # NaN }
      keys == { << r.primary_description, r.community_area >> : r \in keyed }
  IN { [ primary_description |-> k[1],
         community_area |-> IF k[2] = NA THEN "<NA>" ELSE astype_str(k[2]),
         count |-> Cardinality({ r \in keyed : r.primary_description = k[1]
                                              /\ r.community_area = k[2] }) ]
       : k \in keys }

\* Lines 238-243: groupby([primary_description, community_area]).size();
\* groupby leaves out the rows with a missing key (dropna=True).
ChartData(fdf) ==
  LET keyed == { r \in fdf : r.primary_description # NaN /\ r.community_area # NA }
      keys == { << r.primary_description, r.community_area >> : r \in keyed }
  IN { [ primary_description |-> k[1],
         community_area |-> astype_str(k[2]),
         count |-> Cardinality({ r \in keyed : r.primary_description = k[1]
                                              /\ r.community_area = k[2] }) ]
       : k \in keys }

\* Line 333
Hourly(fdf) ==
  { [ weekday |-> k[1], hour |-> k[2],
      count |-> Cardinality({ r \in fdf : r.weekday = k[1] /\ r.hour = k[2] }) ]
    : k \in { << r.weekday, r.hour >> : r \in fdf } }

---------------------------------------------------------------------------
(* The linked charts (Vega-Lite transforms, evaluated in the browser)      *)

\* The window ranks densely: peers share a rank and the next rank does
\* not skip (dense_rank instead of rank).
bar_chart_dense_rank(cd) ==
  LET types == { r.primary_description : r \in cd }
      total(t) == SumCount({ r \in cd : r.primary_description = t })
      rank(t) == 1 + Cardinality({ total(u) : u \in { v \in types : total(v) > total(t) } })
  IN { [ primary_description |-> t, total_count |-> total(t), rank |-> rank(t) ]
       : t \in { u \in types : rank(u) <= TopN } }

\* Lines 250-260: sum(count) by primary_description; rank over
\* total_count descending (peers share a rank, the next rank skips);
\* keep rank <= 20.
bar_chart_rows(cd) ==
  LET types == { r.primary_description : r \in cd }
      total(t) == SumCount({ r \in cd : r.primary_description = t })
      rank(t) == 1 + Cardinality({ u \in types : total(u) > total(t) })
  IN { [ primary_description |-> t, total_count |-> total(t), rank |-> rank(t) ]
       : t \in { u \in types : rank(u) <= TopN } }

\* The boundary dataset: properties.area_num_1 of its features
AreaKeys == { astype_str(a) : a \in 1..NumAreas }

isValid(x) == x \in Int

\* A selection filter that lets nothing through while nothing is selected.
selection_filter_empty_none(cd, sel) ==
  { r \in cd : r.primary_description \in sel }

\* Line 281: transform_filter(selection); an empty selection_point lets
\* every row through.
selection_filter(cd, sel) ==
  IF sel = {} THEN cd ELSE { r \in cd : r.primary_description \in sel }

\* Lines 279-296: filter by the selection, sum(count) by community_area,
\* look each aggregated row up in the boundary dataset, fill the count.
\* The rows are those of the aggregate: the lookup adds fields, it adds no
\* rows.
map_chart_rows(cd, sel) ==
  LET kept == selection_filter(cd, sel)
      areas == { r.community_area : r \in kept }
      crime_count(a) == SumCount({ r \in kept : r.community_area = a })
  IN { [ community_area |-> a,
         crime_count |-> crime_count(a),
         has_geometry |-> a \in AreaKeys,
         crime_count_filled |->
           IF isValid(crime_count(a)) THEN crime_count(a) ELSE 0 ]
       : a \in areas }

---------------------------------------------------------------------------
(* The page                                                                *)

NoFilters ==
  [ start_date |-> 0, end_date |-> 0, selected_cats |-> {},
    domestic_filter |-> "All incidents" ]

\* Lines 209-222, 245-319, 336-350: each visualization draws its chart or
\* its own no-data notice.
Visualizations(fdf) ==
  (IF Daily(fdf) # {} THEN {"daily_chart"} ELSE {"info_timeline"}) \cup
  (IF ChartData(fdf) # {} THEN {"combined_dashboard"} ELSE {"info_dashboard"}) \cup
  (IF Hourly(fdf) # {} THEN {"heatmap"} ELSE {"info_heatmap"})

Init ==
  /\ clock = 0
  /\ cache = {}
  /\ session_state = << >>
  /\ df = {}
  /\ stage = "start"
  /\ notices = {}
  /\ filters = NoFilters
  /\ filtered_df = {}
  /\ chart_data = {}
  /\ bar_chart = {}
  /\ selection = {}
  /\ last_get = {}
  /\ run = [refresh |-> FALSE, gets |-> 0, at |-> 0, prev |-> {}]
  /\ cat_input = PyNone
  /\ cat_result = ""

\* Time passes between two page runs.
Tick ==
  /\ clock + (TTL \div 2) <= MaxTicks * (TTL \div 2)
  /\ clock' = clock + (TTL \div 2)
  /\ UNCHANGED << cache, session_state, df, stage, notices, filters,
                  filtered_df, chart_data, bar_chart, selection, last_get,
                  run, cat_input, cat_result >>

\* One run of the script, lines 121-353.  refresh: the run was triggered
\* by the Refresh button.  outcome: what the GET ends in, when load_data
\* issues one (NoRequest when it does not).  The values the sidebar widgets
\* return in this run are drawn from what each widget offers; the
\* multiselect and the selectbox from the subsets Cats and Doms of their
\* options.
PageRun(refresh, outcome, Cats, Doms) ==
  LET c0 == IF refresh THEN {} ELSE cache
      ld == load_data(DefaultLimit, c0, clock, outcome)
      head == (IF refresh THEN {"sidebar.success"} ELSE {}) \cup
              (IF ld.error THEN {"st.error"} ELSE {})
  IN
  /\ (outcome = NoRequest) <=> (CacheLive(c0, DefaultLimit, clock) # {})
  /\ cache' = ld.cache
  /\ df' = ld.df
  /\ last_get' = IF ld.gets > 0
                 THEN { [at |-> clock, failed |-> ~outcome.ok, df |-> ld.df] }
                 ELSE last_get
  /\ run' = [refresh |-> refresh, gets |-> ld.gets, at |-> clock, prev |-> last_get]
  /\ selection' = {}
  /\ UNCHANGED << clock, cat_input, cat_result >>
  /\ IF ld.df = {}
     THEN \* lines 130-132: st.warning, st.stop
          /\ stage' = "stopped"
          /\ notices' = head \cup {"st.warning"}
          /\ filters' = NoFilters
          /\ filtered_df' = {}
          /\ chart_data' = {}
          /\ bar_chart' = {}
          /\ UNCHANGED session_state
     ELSE LET ss1 == InitSession(session_state, ld.df)
              lo == min_date(ld.df)
              hi == max_date(ld.df)
              value == << ss1["start_date"], ss1["end_date"] >>
          IN IF DateInputRejects(value, lo, hi)
             THEN \* the exception ends the run at line 143
                  /\ stage' = "exception"
                  /\ notices' = head \cup {"exception"}
                  /\ session_state' = ss1
                  /\ filters' = NoFilters
                  /\ filtered_df' = {}
                  /\ chart_data' = {}
                  /\ bar_chart' = {}
             ELSE \E date_range \in DateInputValues(value, lo, hi),
                     selected_cats \in (SUBSET all_cats(ld.df)) \cap Cats,
                     domestic_filter \in domestic_options \cap Doms :
                  LET ss2 == StoreRange(ss1, date_range)
                      fdf == FilterLogic(ld.df, ss2["start_date"], ss2["end_date"],
                                         selected_cats, domestic_filter)
                  IN /\ session_state' = ss2
                     /\ filters' = [ start_date |-> ss2["start_date"],
                                     end_date |-> ss2["end_date"],
                                     selected_cats |-> selected_cats,
                                     domestic_filter |-> domestic_filter ]
                     /\ filtered_df' = fdf
                     /\ chart_data' = ChartData(fdf)
                     /\ bar_chart' = bar_chart_rows(ChartData(fdf))
                     /\ notices' = head \cup Visualizations(fdf)
                     /\ stage' = "rendered"

\* Line 247 and 261-272: a click on a bar selects its crime type.
ClickBar(t) ==
  /\ stage = "rendered"
  /\ t \in { b.primary_description : b \in bar_chart }
  /\ selection' = {t}
  /\ UNCHANGED << clock, cache, session_state, df, stage, notices, filters,
                  filtered_df, chart_data, bar_chart, last_get, run,
                  cat_input, cat_result >>

\* Line 247: a shift-click toggles a bar in the selection (the default
\* toggle of selection_point).
ShiftClickBar(t) ==
  /\ stage = "rendered"
  /\ t \in { b.primary_description : b \in bar_chart }
  /\ selection' = IF t \in selection THEN selection \ {t} ELSE selection \cup {t}
  /\ UNCHANGED << clock, cache, session_state, df, stage, notices, filters,
                  filtered_df, chart_data, bar_chart, last_get, run,
                  cat_input, cat_result >>

\* Line 247: a click off the bars clears the selection.
ClearSelection ==
  /\ stage = "rendered"
  /\ bar_chart # {}
  /\ selection # {}
  /\ selection' = {}
  /\ UNCHANGED << clock, cache, session_state, df, stage, notices, filters,
                  filtered_df, chart_data, bar_chart, last_get, run,
                  cat_input, cat_result >>

\* The map the browser shows for the current selection
MapOutput == map_chart_rows(chart_data, selection)

\* The crime types of PayloadA and PayloadB
Types == { "THEFT", "BATTERY" }
AllTypes == { TypeNames[i] : i \in 1..Len(TypeNames) }

\* Page runs over time, with Refresh, failing and changing fetches and the
\* date picker; the type and domestic filters stay at their defaults.
Next ==
  \/ Tick
  \/ \E refresh \in BOOLEAN, outcome \in Outcomes \cup {NoRequest} :
       PageRun(refresh, outcome, { {} }, { "All incidents" })
  \/ \E t \in AllTypes : ClickBar(t)
  \/ ClearSelection

Spec == Init /\ [][Next]_vars

\* Page runs with every value of every sidebar widget, and the clicks on
\* the bar chart, at one instant.
NextFilter ==
  \/ \E refresh \in BOOLEAN, outcome \in Outcomes \cup {NoRequest} :
       PageRun(refresh, outcome, SUBSET Types, domestic_options)
  \/ \E t \in AllTypes : ClickBar(t)
  \/ \E t \in AllTypes : ShiftClickBar(t)
  \/ ClearSelection

SpecFilter == Init /\ [][NextFilter]_vars

---------------------------------------------------------------------------
(* The dashboard on generated tables with many crime types                 *)

\* Of n crime types, type i has 1 + (n - i) \div k incidents: k types in a
\* row share a total.  k ranges over 1..MaxTie.
MaxTie == 3

GenCount(n, k, i) == 1 + ((n - i) \div k)

GenPayload(n, k) ==
  { Raw(100 * p[1] + p[2], TRUE, 1 + (p[2] % 2), 8, TypeNames[p[1]], "false",
        astype_str(1 + (p[1] % NumAreas)))
    : p \in { q \in (1..n) \X (1..n) : q[2] <= GenCount(n, k, q[1]) } }

\* The script has loaded a generated table and reached line 245 with the
\* filters at their defaults.
InitChart ==
  \E n \in 0..MaxTypes, k \in 1..MaxTie :
    LET d == Normalize(GenPayload(n, k)) IN
    /\ clock = 0
    /\ cache = { [key |-> DefaultLimit, at |-> 0, df |-> d, error |-> FALSE] }
    /\ session_state = << >>
    /\ df = d
    /\ stage = "aggregated"
    /\ notices = {}
    /\ filters = NoFilters
    /\ filtered_df = d
    /\ chart_data = ChartData(d)
    /\ bar_chart = {}
    /\ selection = {}
    /\ last_get = { [at |-> 0, failed |-> FALSE, df |-> d] }
    /\ run = [refresh |-> FALSE, gets |-> 1, at |-> 0, prev |-> {}]
    /\ cat_input = PyNone
    /\ cat_result = ""

\* Lines 245-319: the linked bar chart and map, or the no-data notice.
RenderDashboard ==
  /\ stage = "aggregated"
  /\ stage' = "rendered"
  /\ bar_chart' = bar_chart_rows(chart_data)
  /\ notices' = IF chart_data # {} THEN {"combined_dashboard"} ELSE {"info_dashboard"}
  /\ selection' = {}
  /\ UNCHANGED << clock, cache, session_state, df, filters, filtered_df,
                  chart_data, last_get, run, cat_input, cat_result >>

NextChart ==
  \/ RenderDashboard
  \/ \E t \in AllTypes : ClickBar(t)
  \/ ClearSelection

SpecChart == InitChart /\ [][NextChart]_vars

---------------------------------------------------------------------------
(* Calls of the categorizer                                                *)

Fragments ==
  { <<"T","H","E","F","T">>,
    <<"T","h","e","f","t">>,
    <<"T","H","E","F">>,
    <<"T">>,
    <<"H","O","M","I","C","I","D","E">>,
    <<"a","s","s","a","u","l","t">>,
    <<"N","a","r","c","o","t","i","c","s">>,
    <<"G","A","M","B","L","I","N","G">>,
    <<" ">>,
    <<"R","I","T","U","A","L","I","S","M">>,
    <<"O","T","H","E","R"," ","O","F","F","E","N","S","E">>,
    <<"B","a","t","t","e","r","y">> }

RECURSIVE Concat(_)
Concat(parts) ==
  IF parts = << >> THEN << >> ELSE Head(parts) \o Concat(Tail(parts))

\* Strings of at most MaxFrags fragments, the primary_type values, and the
\* values that are no str.
CatInputs ==
  { PyStr(Concat(parts)) : parts \in UNION { [1..n -> Fragments] : n \in 0..MaxFrags } }
  \cup { PyStr(Text(name)) : name \in AllTypes }
  \cup { PyNaN, PyNone, PyInt }

InitCat ==
  /\ clock = 0
  /\ cache = {}
  /\ session_state = << >>
  /\ df = {}
  /\ stage = "start"
  /\ notices = {}
  /\ filters = NoFilters
  /\ filtered_df = {}
  /\ chart_data = {}
  /\ bar_chart = {}
  /\ selection = {}
  /\ last_get = {}
  /\ run = [refresh |-> FALSE, gets |-> 0, at |-> 0, prev |-> {}]
  /\ cat_input \in CatInputs
  /\ cat_result = ""

\* Lines 21-48: one call returns.
Categorize ==
  /\ cat_result = ""
  /\ cat_result' = categorize_for_resident(cat_input)
  /\ UNCHANGED << clock, cache, session_state, df, stage, notices, filters,
                  filtered_df, chart_data, bar_chart, selection, last_get,
                  run, cat_input >>

NextCat == Categorize

SpecCat == InitCat /\ [][NextCat]_vars

---------------------------------------------------------------------------
(* Properties                                                              *)

VizCharts == { "daily_chart", "combined_dashboard", "heatmap" }
VizNotices == { "info_timeline", "info_dashboard", "info_heatmap" }

\* The latest page run issued a GET and the GET raised.
FetchFailedThisRun ==
  /\ stage # "start"
  /\ run.gets = 1
  /\ \E g \in last_get : g.failed

C2_FetchOnlyWhenNotCached ==
  stage # "start" =>
    /\ run.gets \in {0, 1}
    /\ (run.gets = 1) <=>
         (run.refresh \/ run.prev = {} \/ \A g \in run.prev : run.at - g.at >= TTL)
    /\ run.gets = 0 => \A g \in run.prev : df = g.df /\ last_get = run.prev
    /\ run.refresh => run.gets = 1 /\ \A g \in last_get : g.at = run.at

C2_Witness ==
  /\ stage = "rendered"
  /\ run.gets = 0
  /\ \E g \in run.prev : run.at > g.at

\* C3, as stated: a load_data call issues at most one GET, and after a
\* failed fetch a later page run issues a GET only if the user triggered
\* Refresh.
C3_RefetchAfterFailureOnlyOnRefresh ==
  stage # "start" =>
    /\ run.gets <= 1
    /\ (run.gets = 1 /\ \E g \in run.prev : g.failed) => run.refresh

\* C3, amended: a load_data call issues at most one GET, and after a
\* failed fetch a later page run issues a GET only if the user triggered
\* Refresh or the cached result of the failed fetch is at least one hour
\* old (the failure is cached like any result and expires like one).
C3_RefetchAfterFailureOnRefreshOrExpiry ==
  stage # "start" =>
    /\ run.gets <= 1
    /\ (run.gets = 1 /\ \E g \in run.prev : g.failed) =>
         (run.refresh \/ \A g \in run.prev : run.at - g.at >= TTL)

C3_Witness ==
  /\ stage # "start"
  /\ run.gets = 1
  /\ ~run.refresh
  /\ \E g \in run.prev : g.failed /\ run.at - g.at >= TTL

\* C4: the filtered set is exactly the rows whose date lies in
\* [start_date, end_date], whose type is selected (or no type is), and
\* whose domestic flag is exactly true under "Domestic only" and exactly
\* false under "Non-domestic only"; so a row of unknown domestic status is
\* in neither, and no selected type means no type restriction.
C4_FilteredSetIsConjunction ==
  stage = "rendered" =>
    /\ filtered_df =
         { r \in df :
             /\ filters.start_date <= r.date_only
             /\ r.date_only <= filters.end_date
             /\ \/ filters.selected_cats = {}
                \/ r.primary_description \in filters.selected_cats
             /\ \/ filters.domestic_filter = "All incidents"
                \/ filters.domestic_filter = "Domestic only" /\ r.domestic = "true"
                \/ filters.domestic_filter = "Non-domestic only" /\ r.domestic = "false" }
    /\ filters.domestic_filter # "All incidents" =>
         \A r \in filtered_df : r.domestic # NaN
    /\ filters.selected_cats = {} =>
         filtered_df = FilterLogic(df, filters.start_date, filters.end_date,
                                   AllTypes \cup {NaN}, filters.domestic_filter)

C4_Witness ==
  /\ stage = "rendered"
  /\ filters.domestic_filter = "Domestic only"
  /\ filters.selected_cats = {}
  /\ filtered_df # {}
  /\ \E r \in df : /\ r.domestic = NaN
                   /\ filters.start_date <= r.date_only
                   /\ r.date_only <= filters.end_date
                   /\ r \notin filtered_df

\* Two characters are the same letter, whatever their case.
SameLetter(a, b) ==
  a = b \/ \E n \in 1..Len(LowerCase) : {a, b} = {LowerCase[n], UpperCase[n]}

\* Keyword kw occurs in text, case-insensitively.
Occurs(kw, text) ==
  \E off \in 0..Len(text) :
    /\ off + Len(kw) <= Len(text)
    /\ \A j \in 1..Len(kw) : SameLetter(text[off + j], kw[j])

ListMatches(keywords, text) ==
  \E i \in 1..Len(keywords) : Occurs(keywords[i], text)

\* C5: the categorizer always returns one of the four buckets; for a str
\* it is the bucket of the first list (property, violent, public safety)
\* with a keyword occurring case-insensitively, "Other / Uncategorized"
\* when no list matches or the input is no str; a text with THEFT and a
\* violent keyword is "Property Crime".
C5_FirstMatchingListWins ==
  cat_result # "" =>
    /\ cat_result \in { "Property Crime", "Violent Crime",
                        "Public Safety / Nuisance", "Other / Uncategorized" }
    /\ cat_input.type # "str" => cat_result = "Other / Uncategorized"
    /\ cat_input.type = "str" =>
         LET text == cat_input.chars IN
         /\ ListMatches(property_keywords, text) <=> cat_result = "Property Crime"
         /\ (~ListMatches(property_keywords, text) /\ ListMatches(violent_keywords, text))
              <=> cat_result = "Violent Crime"
         /\ (/\ ~ListMatches(property_keywords, text)
             /\ ~ListMatches(violent_keywords, text)
             /\ ListMatches(public_safety_keywords, text))
              <=> cat_result = "Public Safety / Nuisance"
         /\ (Occurs(<<"T","H","E","F","T">>, text) /\ ListMatches(violent_keywords, text))
              => cat_result = "Property Crime"

C5_Witness ==
  /\ cat_result = "Property Crime"
  /\ cat_input.type = "str"
  /\ Occurs(<<"T","H","E","F","T">>, cat_input.chars)
  /\ Occurs(<<"H","O","M","I","C","I","D","E">>, cat_input.chars)

RECURSIVE MapTotal(_)
MapTotal(rows) ==
  IF rows = {} THEN 0
  ELSE LET r == CHOOSE r \in rows : TRUE
       IN r.crime_count_filled + MapTotal(rows \ {r})

\* C6: with one crime type selected, the counts of the map add up to the
\* aggregate counts of that type's rows; with nothing selected (never, or
\* after clearing) they add up to the counts of all rows.
C6_MapTotalFollowsSelection ==
  stage = "rendered" =>
    /\ \A t \in AllTypes :
         selection = {t} =>
           MapTotal(MapOutput) =
             SumCount({ r \in chart_data : r.primary_description = t })
    /\ selection = {} => MapTotal(MapOutput) = SumCount(chart_data)

C6_Witness ==
  /\ stage = "rendered"
  /\ Cardinality(selection) = 1
  /\ MapTotal(MapOutput) > 0
  /\ MapTotal(MapOutput) < SumCount(chart_data)

\* C7: with a crime type selected, every area of the boundary dataset is
\* in the map output, with count 0 when it has no rows of that type.
C7_EveryAreaStaysOnMap ==
  (stage = "rendered" /\ selection # {}) =>
    \A a \in AreaKeys :
      \E m \in MapOutput :
        /\ m.community_area = a
        /\ m.crime_count_filled =
             SumCount({ r \in chart_data : /\ r.primary_description \in selection
                                           /\ r.community_area = a })

TypesOf(cd) == { r.primary_description : r \in cd }
TotalOf(cd, t) == SumCount({ r \in cd : r.primary_description = t })
Larger(cd, t) == { u \in TypesOf(cd) : TotalOf(cd, u) > TotalOf(cd, t) }

\* C8, as stated: the bar chart shows the TopN types of largest total,
\* ties broken, so exactly min(TopN, number of types) bars.
C8_ExactlyTopNBars ==
  stage = "rendered" =>
    Cardinality(bar_chart) =
      IF Cardinality(TypesOf(chart_data)) < TopN
      THEN Cardinality(TypesOf(chart_data)) ELSE TopN

\* C8, amended: the bar chart shows exactly the crime types that fewer
\* than TopN types exceed in total count, each with its total.  Types that
\* tie are kept or dropped together, so at least min(TopN, number of types)
\* bars are shown and more than TopN when totals tie at the TopN-th place.
C8_BarsAreTypesOfRankAtMostTopN ==
  stage = "rendered" =>
    /\ \A b \in bar_chart :
         /\ b.primary_description \in TypesOf(chart_data)
         /\ b.total_count = TotalOf(chart_data, b.primary_description)
         /\ Cardinality(Larger(chart_data, b.primary_description)) < TopN
    /\ \A t \in TypesOf(chart_data) :
         (\A b \in bar_chart : b.primary_description # t) =>
           Cardinality(Larger(chart_data, t)) >= TopN
    /\ Cardinality(bar_chart) >=
         IF Cardinality(TypesOf(chart_data)) < TopN
         THEN Cardinality(TypesOf(chart_data)) ELSE TopN

C8_Witness ==
  /\ stage = "rendered"
  /\ Cardinality(bar_chart) > TopN

\* C9, as stated: the counts of the (type, area) aggregate add up to the
\* number of filtered incidents, those without an area included, and each
\* bar total is the number of filtered incidents of its type.
C9_AggregateCountsEveryIncident ==
  stage = "rendered" =>
    /\ SumCount(chart_data) = Cardinality(filtered_df)
    /\ \A b \in bar_chart :
         b.total_count =
           Cardinality({ r \in filtered_df : r.primary_description = b.primary_description })

\* C9, amended: the counts of the aggregate add up to the number of
\* filtered incidents that have both a primary_description and a
\* community_area (the grouping leaves out rows with a missing key), and
\* each bar total is the number of filtered incidents of its type that
\* have a community_area.
C9_AggregateCountsKeyedIncidents ==
  stage = "rendered" =>
    /\ SumCount(chart_data) =
         Cardinality({ r \in filtered_df : /\ r.primary_description # NaN
                                           /\ r.community_area # NA })
    /\ \A b \in bar_chart :
         b.total_count =
           Cardinality({ r \in filtered_df :
                           /\ r.primary_description = b.primary_description
                           /\ r.community_area # NA })

C9_Witness ==
  /\ stage = "rendered"
  /\ chart_data # {}
  /\ \E r \in filtered_df : r.community_area = NA /\ r.primary_description # NaN

\* C10: in every page run that gets to the date-range picker, the
\* start_date and end_date of the session state lie within the dates of
\* the loaded table, in order.
C10_SessionDatesWithinLoadedRange ==
  stage \in { "exception", "rendered" } =>
    /\ min_date(df) <= session_state["start_date"]
    /\ session_state["start_date"] <= session_state["end_date"]
    /\ session_state["end_date"] <= max_date(df)

=============================================================================
